---- MODULE Spec2Model ----
(***************************************************************************)
(* CRC-32K (Koopman) checksum engines of crc32k.py: the bit reflector, the *)
(* bitwise and table-driven MSB-first engines, the bitwise and table-      *)
(* driven reflected engines, the agreement checker and the self-test.      *)
(*                                                                         *)
(* Python integers are unbounded and non-negative here, so an integer is   *)
(* modelled as the set of the positions of its 1 bits: 5 is {0, 2}.  A     *)
(* mask is then an intersection, a shift moves the positions and XOR is    *)
(* the symmetric difference; nothing is truncated unless the code masks.   *)
(* Bytes of a message are plain integers 0..255.                           *)
(***************************************************************************)
EXTENDS Integers, Sequences, FiniteSets, TLC

\* ---------------------------------------------------------------- bounds
\* Longest message handed to the engines.
MaxLen == 2
\* Widest small width handed to reflect_bits (32 is always tried as well).
MaxWidth == 3

\* ------------------------------------------------- integers as bit sets
\* The bits of a machine-size non-negative integer n < 2^31.
ToBits(n) == {k \in 0..30 : (n \div (2^k)) % 2 = 1}

\* The integer of a value already masked to 8 bits (a table index).
ToInt(s) ==
    LET b(k) == IF k \in s THEN 2^k ELSE 0
    IN  b(0) + b(1) + b(2) + b(3) + b(4) + b(5) + b(6) + b(7)

Shl(s, n) == {k + n : k \in s}
Shr(s, n) == {k - n : k \in {j \in s : j >= n}}
And(a, b) == a \cap b
Or(a, b)  == a \cup b
Xor(a, b) == (a \ b) \cup (b \ a)

\* 0xFFFFFFFF, 0xFF, 0x80000000 and 1.
MASK32 == 0..31
MASK8  == 0..7
TOPBIT == {31}
ONE    == {0}

\* ------------------------------------------------------------ reflector
RECURSIVE ReflectLoop(_, _, _)
\* for _ in range(width): reflected = (reflected << 1) | (value & 1); value >>= 1
ReflectLoop(reflected, value, n) ==
    IF n <= 0 THEN reflected
    ELSE ReflectLoop(Or(Shl(reflected, 1), And(value, ONE)), Shr(value, 1), n - 1)

\* A reflector that forgets the last round.
reflect_bits_short(value, width) == ReflectLoop({}, value, width - 1)

reflect_bits(value, width) == ReflectLoop({}, value, width)

\* ----------------------------------------------------------- polynomial
POLY_MSB == ToBits(1947962583)       \* 0x741B8CD7
POLY_LSB == reflect_bits(POLY_MSB, 32)

\* ------------------------------------------------------ register updates
\* crc = 0 at the start of every engine.
ZeroRegister_ones == MASK32
ZeroRegister == {}

\* One bit round of bit_crc32k_msb without the 32-bit mask.
BitMsbRound_nomask(crc, byte, bit_index) ==
    LET in_bit == (byte \div (2^(7 - bit_index))) % 2
        msb    == IF And(Shr(crc, 31), ONE) # {} THEN 1 ELSE 0
        sh     == Shl(crc, 1)
    IN  IF msb # in_bit THEN Xor(sh, POLY_MSB) ELSE sh

\* One bit round of bit_crc32k_msb.
BitMsbRound(crc, byte, bit_index) ==
    LET in_bit == (byte \div (2^(7 - bit_index))) % 2
        msb    == IF And(Shr(crc, 31), ONE) # {} THEN 1 ELSE 0
        sh     == And(Shl(crc, 1), MASK32)
    IN  IF msb # in_bit THEN Xor(sh, POLY_MSB) ELSE sh

\* One round of the table generator _make_table_msb.
TableGenMsbRound(crc) ==
    IF And(crc, TOPBIT) # {}
    THEN Xor(And(Shl(crc, 1), MASK32), POLY_MSB)
    ELSE And(Shl(crc, 1), MASK32)

\* One right-shift round, shared by bit_crc32k_reflected and _make_table_lsb.
LsbRound(crc) ==
    IF And(crc, ONE) # {}
    THEN Xor(Shr(crc, 1), POLY_LSB)
    ELSE Shr(crc, 1)

RECURSIVE MsbGenRounds(_, _)
MsbGenRounds(crc, n) == IF n = 0 THEN crc ELSE MsbGenRounds(TableGenMsbRound(crc), n - 1)

RECURSIVE LsbGenRounds(_, _)
LsbGenRounds(crc, n) == IF n = 0 THEN crc ELSE LsbGenRounds(LsbRound(crc), n - 1)

\* A generator that seeds the register with the byte in the low position.
_make_table_msb_lowseed == [b \in 0..255 |-> And(MsbGenRounds(ToBits(b), 8), MASK32)]

_make_table_msb == [b \in 0..255 |-> And(MsbGenRounds(Shl(ToBits(b), 24), 8), MASK32)]

\* A generator that runs seven rounds instead of eight.
_make_table_lsb_short == [b \in 0..255 |-> And(LsbGenRounds(ToBits(b), 7), MASK32)]

_make_table_lsb == [b \in 0..255 |-> And(LsbGenRounds(ToBits(b), 8), MASK32)]

\* One byte step of table_crc32k_msb with table t.
TableMsbStep(crc, byte, t) ==
    LET index == ToInt(And(Xor(Shr(crc, 24), ToBits(byte)), MASK8))
    IN  And(Xor(And(Shl(crc, 8), MASK32), t[index]), MASK32)

\* A reflected table step whose index leaves the input byte out.
TableLsbStep_nobyte(crc, byte, t) ==
    LET index == ToInt(And(crc, MASK8))
    IN  And(Xor(Shr(crc, 8), t[index]), MASK32)

\* One byte step of table_crc32k_reflected with table t.
TableLsbStep(crc, byte, t) ==
    LET index == ToInt(And(Xor(crc, ToBits(byte)), MASK8))
    IN  And(Xor(Shr(crc, 8), t[index]), MASK32)

\* ------------------------------------------------------------------ state
VARIABLES
    _TABLE_MSB,   \* module-level table of the MSB-first engine
    _TABLE_LSB,   \* module-level table of the reflected engine
    op,           \* the running top-level call: "none", "all_algorithms_agree", "self_test"
    data,         \* the message of the running engine call
    pc,           \* position: which engine loop runs, or "compare", or "idle"
    i,            \* 1-based index of the next byte of data
    bit_index,    \* bit round within the current byte
    crc,          \* the running engine's register
    values,       \* v1, v2, v3, v4 as far as computed
    outcome,      \* how the last top-level call ended
    prev,         \* an earlier completed all_algorithms_agree call: its data and values
    vector,       \* self_test: 0 for the 125-byte vector, 1..4 for the seeded ones
    refl          \* the last reflect_bits call(s)

vars == <<_TABLE_MSB, _TABLE_LSB, op, data, pc, i, bit_index, crc, values,
          outcome, prev, vector, refl>>

\* Byte values the messages are built from: 0x00, 0x01, 0xFF.
Bytes == {0, 1, 255}

RECURSIVE SeqsUpTo(_)
SeqsUpTo(n) ==
    IF n = 0 THEN {<<>>}
    ELSE LET shorter == SeqsUpTo(n - 1)
         IN  shorter \cup {Append(s, b) : s \in {t \in shorter : Len(t) = n - 1}, b \in Bytes}

Messages == SeqsUpTo(MaxLen)

\* Values and widths handed to reflect_bits.
ReflectValues == SUBSET (0..MaxWidth) \cup {POLY_MSB, POLY_LSB}
ReflectWidths == (-1..MaxWidth) \cup {32}

NoCall == [calls |-> 0, value |-> {}, width |-> 0, result |-> {}, outcome |-> "none"]

Init ==
    /\ _TABLE_MSB = _make_table_msb
    /\ _TABLE_LSB = _make_table_lsb
    /\ op = "none"
    /\ data = <<>>
    /\ pc = "idle"
    /\ i = 1
    /\ bit_index = 0
    /\ crc = ZeroRegister
    /\ values = <<>>
    /\ outcome = "none"
    /\ prev = [data |-> <<>>, values |-> <<>>]
    /\ vector = 0
    /\ refl = NoCall

\* --------------------------------------------------------------- engines
\* The engines run in the order of all_algorithms_agree and self_test:
\* bit_crc32k_msb, table_crc32k_msb, bit_crc32k_reflected, table_crc32k_reflected.

\* bit_crc32k_msb: one bit of one byte.
BitMsbStep ==
    /\ pc = "bit_crc32k_msb"
    /\ i <= Len(data)
    /\ crc' = BitMsbRound(crc, data[i], bit_index)
    /\ IF bit_index = 7
       THEN i' = i + 1 /\ bit_index' = 0
       ELSE i' = i /\ bit_index' = bit_index + 1
    /\ UNCHANGED <<_TABLE_MSB, _TABLE_LSB, op, data, pc, values, outcome, prev, vector, refl>>

\* bit_crc32k_msb returns crc & 0xFFFFFFFF; table_crc32k_msb starts.
BitMsbReturn ==
    /\ pc = "bit_crc32k_msb"
    /\ i > Len(data)
    /\ values' = Append(values, And(crc, MASK32))
    /\ pc' = "table_crc32k_msb"
    /\ crc' = ZeroRegister
    /\ i' = 1
    /\ UNCHANGED <<_TABLE_MSB, _TABLE_LSB, op, data, bit_index, outcome, prev, vector, refl>>

\* table_crc32k_msb with a byte step that stores the register into the table.
TableMsbByte_store ==
    /\ pc = "table_crc32k_msb"
    /\ i <= Len(data)
    /\ crc' = TableMsbStep(crc, data[i], _TABLE_MSB)
    /\ _TABLE_MSB' = [_TABLE_MSB EXCEPT ![data[i]] = crc']
    /\ i' = i + 1
    /\ UNCHANGED <<_TABLE_LSB, op, data, pc, bit_index, values, outcome, prev, vector, refl>>

\* table_crc32k_msb: one byte, with the default table (table is None).
TableMsbByte ==
    /\ pc = "table_crc32k_msb"
    /\ i <= Len(data)
    /\ crc' = TableMsbStep(crc, data[i], _TABLE_MSB)
    /\ i' = i + 1
    /\ UNCHANGED <<_TABLE_MSB, _TABLE_LSB, op, data, pc, bit_index, values, outcome, prev, vector, refl>>

TableMsbReturn ==
    /\ pc = "table_crc32k_msb"
    /\ i > Len(data)
    /\ values' = Append(values, And(crc, MASK32))
    /\ pc' = "bit_crc32k_reflected"
    /\ crc' = ZeroRegister
    /\ i' = 1
    /\ bit_index' = 0
    /\ UNCHANGED <<_TABLE_MSB, _TABLE_LSB, op, data, outcome, prev, vector, refl>>

\* bit_crc32k_reflected: crc ^= byte.
BitReflectedXor ==
    /\ pc = "bit_crc32k_reflected"
    /\ i <= Len(data)
    /\ crc' = Xor(crc, ToBits(data[i]))
    /\ pc' = "bit_crc32k_reflected_rounds"
    /\ bit_index' = 0
    /\ UNCHANGED <<_TABLE_MSB, _TABLE_LSB, op, data, i, values, outcome, prev, vector, refl>>

\* bit_crc32k_reflected: one of the 8 shift rounds of a byte.
BitReflectedStep ==
    /\ pc = "bit_crc32k_reflected_rounds"
    /\ crc' = LsbRound(crc)
    /\ IF bit_index = 7
       THEN i' = i + 1 /\ bit_index' = 0 /\ pc' = "bit_crc32k_reflected"
       ELSE i' = i /\ bit_index' = bit_index + 1 /\ pc' = pc
    /\ UNCHANGED <<_TABLE_MSB, _TABLE_LSB, op, data, values, outcome, prev, vector, refl>>

\* bit_crc32k_reflected returns reflect_bits(crc & 0xFFFFFFFF, 32).
BitReflectedReturn ==
    /\ pc = "bit_crc32k_reflected"
    /\ i > Len(data)
    /\ values' = Append(values, reflect_bits(And(crc, MASK32), 32))
    /\ pc' = "table_crc32k_reflected"
    /\ crc' = ZeroRegister
    /\ i' = 1
    /\ UNCHANGED <<_TABLE_MSB, _TABLE_LSB, op, data, bit_index, outcome, prev, vector, refl>>

\* table_crc32k_reflected: one byte, with the default table.
TableReflectedByte ==
    /\ pc = "table_crc32k_reflected"
    /\ i <= Len(data)
    /\ crc' = TableLsbStep(crc, data[i], _TABLE_LSB)
    /\ i' = i + 1
    /\ UNCHANGED <<_TABLE_MSB, _TABLE_LSB, op, data, pc, bit_index, values, outcome, prev, vector, refl>>

TableReflectedReturn ==
    /\ pc = "table_crc32k_reflected"
    /\ i > Len(data)
    /\ values' = Append(values, reflect_bits(And(crc, MASK32), 32))
    /\ pc' = "compare"
    /\ UNCHANGED <<_TABLE_MSB, _TABLE_LSB, op, data, i, bit_index, crc, outcome, prev, vector, refl>>

EngineStep ==
    \/ BitMsbStep
    \/ BitMsbReturn
    \/ TableMsbByte
    \/ TableMsbReturn
    \/ BitReflectedXor
    \/ BitReflectedStep
    \/ BitReflectedReturn
    \/ TableReflectedByte
    \/ TableReflectedReturn

\* ------------------------------------------------------ agreement checker
\* all_algorithms_agree(m) is called: v1 = bit_crc32k_msb(data) starts.
\* prev keeps one earlier completed call to compare later calls with: the
\* call that just ended, or the one kept before.
CallAgree ==
    /\ pc = "idle"
    /\ \E m \in Messages : data' = m
    /\ op' = "all_algorithms_agree"
    /\ \/ prev' = prev
       \/ op = "all_algorithms_agree" /\ prev' = [data |-> data, values |-> values]
    /\ pc' = "bit_crc32k_msb"
    /\ crc' = ZeroRegister
    /\ i' = 1
    /\ bit_index' = 0
    /\ values' = <<>>
    /\ outcome' = "running"
    /\ UNCHANGED <<_TABLE_MSB, _TABLE_LSB, vector, refl>>

AllEqual(vs) == Cardinality({vs[k] : k \in 1..Len(vs)}) = 1

\* return len(set(values)) == 1, values
AgreeReturn ==
    /\ pc = "compare"
    /\ op = "all_algorithms_agree"
    /\ outcome' = IF AllEqual(values) THEN "returned True" ELSE "returned False"
    /\ pc' = "idle"
    /\ UNCHANGED <<_TABLE_MSB, _TABLE_LSB, op, data, i, bit_index, crc, values, prev, vector, refl>>

Next == CallAgree \/ EngineStep \/ AgreeReturn

Spec == Init /\ [][Next]_vars

\* -------------------------------------------------------------- self-test
\* generate_random_data(num_bits, seed): (num_bits + 7) // 8 bytes whose bits
\* come from the library generator; any such message may come out.  The
\* self-test asks for 1000 bits; the model asks for 8 * MaxLen.
generate_random_data(num_bits) == {m \in Messages : Len(m) = (num_bits + 7) \div 8}

\* data = bytes(i & 0xFF for i in range(125))
IncrementalVector == [k \in 1..125 |-> (k - 1) % 256]

SelfTestStart ==
    /\ pc = "idle"
    /\ op' = "self_test"
    /\ data' = IncrementalVector
    /\ vector' = 0
    /\ pc' = "bit_crc32k_msb"
    /\ crc' = ZeroRegister
    /\ i' = 1
    /\ bit_index' = 0
    /\ values' = <<>>
    /\ outcome' = "running"
    /\ UNCHANGED <<_TABLE_MSB, _TABLE_LSB, prev, refl>>

\* assert v1 == v2; assert v3 == v4; then the next seed of (1, 123, 9999, 20231121).
SelfTestAssert ==
    /\ pc = "compare"
    /\ op = "self_test"
    /\ \E msg \in generate_random_data(8 * MaxLen) :
        IF values[1] # values[2] \/ values[3] # values[4]
        THEN /\ outcome' = "raised AssertionError"
             /\ pc' = "idle"
             /\ UNCHANGED <<data, vector, crc, i, bit_index, values>>
        ELSE IF vector < 4
        THEN /\ data' = msg
             /\ vector' = vector + 1
             /\ pc' = "bit_crc32k_msb"
             /\ crc' = ZeroRegister
             /\ i' = 1
             /\ bit_index' = 0
             /\ values' = <<>>
             /\ UNCHANGED outcome
        ELSE /\ outcome' = "returned None"
             /\ pc' = "idle"
             /\ UNCHANGED <<data, vector, crc, i, bit_index, values>>
    /\ UNCHANGED <<_TABLE_MSB, _TABLE_LSB, op, prev, refl>>

SelfTestNext == SelfTestStart \/ EngineStep \/ SelfTestAssert

SpecSelfTest == Init /\ [][SelfTestNext]_vars

CheckerNext == CallAgree \/ AgreeReturn \/ SelfTestStart \/ EngineStep \/ SelfTestAssert

SpecChecker == Init /\ [][CheckerNext]_vars

\* ------------------------------------------------------ reflector calls
\* reflect_bits(value, width) is called and returns.
CallReflect ==
    /\ \E value \in ReflectValues, width \in ReflectWidths :
        refl' = [calls |-> 1, value |-> value, width |-> width,
                 result |-> reflect_bits(value, width), outcome |-> "returned"]
    /\ UNCHANGED <<_TABLE_MSB, _TABLE_LSB, op, data, pc, i, bit_index, crc, values,
                   outcome, prev, vector>>

\* reflect_bits is called on the result of the call before, with the same width.
ReflectAgain ==
    /\ refl.calls = 1
    /\ refl' = [refl EXCEPT !.calls = 2,
                            !.result = reflect_bits(refl.result, refl.width)]
    /\ UNCHANGED <<_TABLE_MSB, _TABLE_LSB, op, data, pc, i, bit_index, crc, values,
                   outcome, prev, vector>>

ReflectNext == CallReflect \/ ReflectAgain

SpecReflect == Init /\ [][ReflectNext]_vars

\* ================================================================ claims
Finished(name) == pc = "idle" /\ op = name /\ Len(values) = 4

\* C1: for every message the four engines return pairwise equal values, so
\* all_algorithms_agree returns True as its first component.
C1_AllFourEnginesAgree ==
    /\ Len(values) = 4 => AllEqual(values)
    /\ Finished("all_algorithms_agree") => outcome = "returned True"

\* C2: table_crc32k_msb with the default table returns exactly the value of
\* bit_crc32k_msb on the same message.
C2_TableMsbEqualsBitwiseMsb == Len(values) >= 2 => values[2] = values[1]

C2_Witness ==
    /\ op = "self_test" /\ vector = 0
    /\ Len(data) = 125 /\ Len(values) >= 2
    /\ values[1] # {} /\ values[2] = values[1]

\* C3: table_crc32k_reflected with the default table returns exactly the value
\* of bit_crc32k_reflected on the same message.
C3_TableReflectedEqualsBitwiseReflected == Len(values) = 4 => values[4] = values[3]

C3_Witness ==
    /\ op = "self_test" /\ vector = 0
    /\ Len(data) = 125 /\ Len(values) = 4
    /\ values[3] # {} /\ values[4] = values[3]

\* C4: reflect_bits is an involution on w-bit values: for a width w >= 0 and a
\* value x with 0 <= x < 2^w, reflecting twice gives x back.
C4_ReflectInvolution ==
    (refl.calls = 2 /\ refl.width >= 0 /\ refl.value \subseteq 0..(refl.width - 1))
        => refl.result = refl.value

C4_Witness ==
    /\ refl.calls = 2 /\ refl.width = 3 /\ refl.value = {0}
    /\ refl.result = {0}

\* C5: reflect_bits called with a negative width fails with InvalidWidth
\* instead of returning a value.
C5_NegativeWidthRaises ==
    (refl.calls >= 1 /\ refl.width < 0) => refl.outcome = "raised InvalidWidth"

\* C6: whenever the four outputs for one input are not all equal, the agreement
\* checker and the self-test raise an error to the caller.
C6_MismatchIsRaised ==
    ((Finished("all_algorithms_agree") \/ Finished("self_test")) /\ ~AllEqual(values))
        => outcome = "raised AssertionError"

\* C7: for the empty message each of the four engines returns 0x00000000.
C7_EmptyMessageGivesZero ==
    (data = <<>>) => \A k \in 1..Len(values) : values[k] = {}

C7_Witness == Finished("all_algorithms_agree") /\ data = <<>> /\ values = <<{}, {}, {}, {}>>

\* C8: on the single byte 0xFF the four engines return one common value, on the
\* single byte 0x00 they return one common value, and the two values differ.
C8_SingleByteVectors ==
    /\ (Len(values) = 4 /\ data \in {<<255>>, <<0>>}) => AllEqual(values)
    /\ (Len(values) = 4 /\ data = <<255>> /\ prev.data = <<0>> /\ Len(prev.values) = 4)
          => \A j, k \in 1..4 : values[j] # prev.values[k]

C8_Witness ==
    /\ Finished("all_algorithms_agree") /\ data = <<255>>
    /\ prev.data = <<0>> /\ Len(prev.values) = 4

\* C9: after any sequence of engine calls (whenever a call has returned) the
\* module-level tables are unchanged and equal to freshly generated ones, and
\* a call on an input returns what an earlier call on that input returned,
\* whatever was called in between.
C9_TablesUnchangedAndDeterministic ==
    /\ pc = "idle" => (_TABLE_MSB = _make_table_msb /\ _TABLE_LSB = _make_table_lsb)
    /\ (Len(values) = 4 /\ Len(prev.values) = 4 /\ prev.data = data) => values = prev.values

C9_Witness ==
    /\ Finished("all_algorithms_agree") /\ Len(data) = MaxLen
    /\ Len(prev.values) = 4 /\ prev.data = data /\ values[1] # {}

\* The working register of both table generators after each of its rounds.
TableGenRegistersInRange ==
    \A b \in 0..255 : \A n \in 0..8 :
        /\ MsbGenRounds(Shl(ToBits(b), 24), n) \subseteq MASK32
        /\ LsbGenRounds(ToBits(b), n) \subseteq MASK32

\* C10: in every engine the register stays in 0..2^32-1 after every update
\* step, also where the right-shift rounds apply no mask, and so does every
\* value an engine returns; the generators' registers are looked at once,
\* in the state the import leaves, where they have run.
C10_RegisterStaysIn32Bits ==
    /\ crc \subseteq MASK32
    /\ \A k \in 1..Len(values) : values[k] \subseteq MASK32
    /\ op = "none" => TableGenRegistersInRange

C10_Witness ==
    /\ pc = "bit_crc32k_reflected_rounds" /\ op = "self_test" /\ vector = 0
    /\ i = 125 /\ 31 \in crc

====
